---------------------------- MODULE Spec2Model ----------------------------
(***************************************************************************)
(* Model of package tracing: Config.ConfigureTracer, TraceOutbound, the    *)
(* inbound HTTP adapters Middleware / HTTPMiddleware with the finish        *)
(* closures they return, and SQLMiddleware with its end closure.            *)
(*                                                                         *)
(* A span is modelled as the record of what the adapters did to the span    *)
(* handle they hold: its name, its references, the tags set on it, how      *)
(* often Finish was called on it and which tags were set after a Finish.    *)
(* The tracer client itself (sampling, reporting) is outside the package.   *)
(*                                                                         *)
(* Two specifications: SpecStartup is process start, where only             *)
(* ConfigureTracer runs; Spec is the serving process, whose initial states  *)
(* carry the global tracer that startup left behind.                        *)
(***************************************************************************)
EXTENDS Integers, Sequences, FiniteSets, TLC

VARIABLES
    globalTracer,   \* opentracing's process-wide tracer: "noop" or "jaeger"
    configCalls,    \* one record per completed ConfigureTracer call
    spans,          \* the spans started so far, by handle (index)
    reqs,           \* inbound requests handed to Middleware / HTTPMiddleware
    queries,        \* SQL statements handed to SQLMiddleware
    outbound        \* outbound requests handed to TraceOutbound

vars == <<globalTracer, configCalls, spans, reqs, queries, outbound>>

-----------------------------------------------------------------------------
(* Bounds of the model *)

\* ConfigureTracer calls at startup
MaxConfigCalls == 3
\* Adapter calls (inbound requests and SQL statements together)
MaxSpans == 2
\* Invocations of the returned finish and end functions, over all spans
MaxCalls == 2
\* Outbound requests given to TraceOutbound
MaxOutbound == 1

(* net/http's StatusInternalServerError *)
StatusInternalServerError == 500

-----------------------------------------------------------------------------
(* Inputs *)

StatusCodes == {200, 404, 500}

\* (method, URL, matched route template) of an inbound request
Requests ==
    { [method |-> "GET", url |-> "/widgets/42", route |-> "/widgets/{id}"] }

\* Query names, as character sequences ("" is <<>>)
QueryNames == { <<>>, <<"f","e","t","c","h","_","u","s","e","r">> }

QueryTexts == { "SELECT * FROM users WHERE id = ?" }

\* Sampler types a Config may carry ("" is unset)
SamplerTypes == { "", "probabilistic" }

\* The value of the trace header of a carrier: <<>> when the header is
\* absent, else its fields <<trace id, span id, parent id, flags>>.
NoHeader == <<>>
MalformedHeader == <<5, 5>>

-----------------------------------------------------------------------------
(* Span contexts and the header carrier (the tracer client behind           *)
(* opentracing.GlobalTracer())                                              *)

\* No span context: a nil opentracing.SpanContext
NoCtx == [kind |-> "none", traceID |-> 0, spanID |-> 0, parentID |-> 0]

\* The context of a span of opentracing's NoopTracer: it carries no ids
NoopCtx == [kind |-> "noop", traceID |-> 0, spanID |-> 0, parentID |-> 0]

JaegerCtx(trace, span, parent) ==
    [kind |-> "jaeger", traceID |-> trace, spanID |-> span, parentID |-> parent]

\* GlobalTracer().Extract(HTTPHeaders, HTTPHeadersCarrier(r.Header)): the
\* no-op tracer finds no context in any carrier; Jaeger parses the trace
\* header and rejects an absent one, a wrong field count and a zero trace id.
\* A failed extraction yields a nil context and an error.
Extract(tracer, header) ==
    IF tracer = "jaeger" /\ Len(header) = 4 /\ header[1] # 0
    THEN [ctx |-> JaegerCtx(header[1], header[2], header[3]), err |-> FALSE]
    ELSE [ctx |-> NoCtx, err |-> TRUE]

\* GlobalTracer().Inject(span.Context(), HTTPHeaders, carrier): the no-op
\* tracer writes nothing and reports no error; Jaeger writes the trace
\* header of its own contexts and refuses a foreign one.
Inject(tracer, ctx) ==
    IF tracer = "jaeger"
    THEN IF ctx.kind = "jaeger"
         THEN [header |-> <<ctx.traceID, ctx.spanID, ctx.parentID, 1>>, err |-> FALSE]
         ELSE [header |-> NoHeader, err |-> TRUE]
    ELSE [header |-> NoHeader, err |-> FALSE]

-----------------------------------------------------------------------------
(* Spans *)

NoTags == [k \in {} |-> TRUE]

\* span.SetTag(key, value): returns the span it was called on. A tag set on
\* a span that has been finished is remembered in late.
SetTag(span, key, value) ==
    [span EXCEPT !.tags = (key :> value) @@ @,
                 !.late = IF span.finishes > 0 THEN @ \cup {key} ELSE @]

\* span.Finish()
Finish(span) == [span EXCEPT !.finishes = @ + 1]

\* ext.RPCServerOption(wireContext): a ChildOf reference to the client's
\* context when there is one, and the server span kind.
RPCServerOption(wireContext) ==
    [refs |-> IF wireContext = NoCtx THEN <<>> ELSE <<wireContext>>,
     kind |-> "server"]

\* No start option (SQLMiddleware passes none)
NoOption == [refs |-> <<>>, kind |-> ""]

\* opentracing.StartSpanFromContext(ctx, name, opts...): the span of ctx, if
\* ctx carries one (parentSpan # 0), is appended to the references as a
\* ChildOf; the first reference is the parent. A Jaeger span without parent
\* begins a trace of its own; with one it joins the parent's trace.
StartSpanFromContext(tracer, id, parentSpan, name, opt) ==
    LET refs == opt.refs \o
                (IF parentSpan = 0 THEN <<>> ELSE <<spans[parentSpan].ctx>>)
        parent == IF refs = <<>> THEN NoCtx ELSE refs[1]
    IN [name |-> name,
        kind |-> opt.kind,
        references |-> refs,
        parent |-> parent,
        ctx |-> IF tracer = "jaeger"
                THEN IF parent.kind = "jaeger"
                     THEN JaegerCtx(parent.traceID, id, parent.spanID)
                     ELSE JaegerCtx(id, id, 0)
                ELSE NoopCtx,
        tags |-> NoTags,
        finishes |-> 0,
        late |-> {}]

-----------------------------------------------------------------------------
(* Config.ConfigureTracer *)

Configs == [Enabled : BOOLEAN, SamplerType : SamplerTypes]

\* jaeger.SamplerTypeConst replaces an unset sampler type
EffectiveSamplerType(c) ==
    IF c.SamplerType = "" THEN "const" ELSE c.SamplerType

\* jaegerConfig.NewTracer: with Disabled = !c.Enabled the client hands out
\* opentracing's NoopTracer.
BuiltTracer(c) == IF c.Enabled THEN "jaeger" ELSE "noop"

\* Variant: SetGlobalTracer ahead of the error check
TracerSetsOnFailure(err) == 1
\* How many times the call reaches opentracing.SetGlobalTracer, given
\* whether NewTracer returned an error: the error branch returns first.
TracerSets(err) == IF err THEN 0 ELSE 1

\* One call of c.ConfigureTracer(); err is the outcome of NewTracer, which
\* the disabled configuration cannot fail (it builds nothing).
ConfigureTracer(c, err) ==
    /\ Len(configCalls) < MaxConfigCalls
    /\ err => c.Enabled
    /\ globalTracer' = IF TracerSets(err) > 0 THEN BuiltTracer(c) ELSE globalTracer
    /\ configCalls' = Append(configCalls,
           [Enabled |-> c.Enabled,
            SamplerType |-> EffectiveSamplerType(c),
            err |-> err,
            sets |-> TracerSets(err),
            closer |-> IF err THEN "nil" ELSE "closer"])
    /\ UNCHANGED <<spans, reqs, queries, outbound>>

-----------------------------------------------------------------------------
(* strconv.Itoa *)

Digits == <<"0", "1", "2", "3", "4", "5", "6", "7", "8", "9">>

RECURSIVE Itoa(_)
\* Variant: string(rune(n)) instead of the decimal rendering, the one
\* character whose code point is n
RuneString(n) == <<"rune">>
\* The decimal rendering of n
Itoa(n) ==
    IF n < 0 THEN <<"-">> \o Itoa(-n)
    ELSE IF n < 10 THEN <<Digits[n + 1]>>
    ELSE Itoa(n \div 10) \o <<Digits[(n % 10) + 1]>>

-----------------------------------------------------------------------------
(* Middleware / HTTPMiddleware *)

\* The invocations made so far of the closures the adapters returned
RECURSIVE SumCalls(_)
SumCalls(records) ==
    IF records = <<>> THEN 0 ELSE Head(records).calls + SumCalls(Tail(records))

TotalCalls == SumCalls(reqs) + SumCalls(queries)

\* Variant: the adapter gives up on an extraction error
StopsOnExtractError(err) == ~err
\* After a failed extraction the adapter only logs at debug level and goes
\* on to start the span.
ContinuesAfterExtract(err) == TRUE

\* Variant: the extracted context is not passed on
DroppedWireContext(ext) == NoCtx
\* The context handed to ext.RPCServerOption: what Extract returned
WireContext(ext) == ext.ctx

\* The logging field embedded when span.Context() is a jaeger.SpanContext
\* (value: the trace id, which the code renders with TraceID().String())
TraceIDField(key, span) ==
    IF span.ctx.kind = "jaeger" THEN <<[key |-> key, traceID |-> span.ctx.traceID]>>
    ELSE <<>>

\* The body shared by Middleware (log field trace_id) and HTTPMiddleware (log
\* field correlation_id), up to the return. sr.StatusCode is 200 until the
\* handler writes a status. An inbound request's context carries no span.
StartInbound(adapter, key, rq, header) ==
    /\ Len(reqs) + Len(queries) < MaxSpans
    /\ LET ext == Extract(globalTracer, header)
           id == Len(spans) + 1
           span0 == StartSpanFromContext(globalTracer, id, 0, rq.route,
                                         RPCServerOption(WireContext(ext)))
           span == SetTag(SetTag(span0, "http.method", rq.method),
                          "http.url", rq.url)
           started == ContinuesAfterExtract(ext.err)
       IN /\ spans' = IF started THEN Append(spans, span) ELSE spans
          /\ reqs' = Append(reqs,
                 [adapter |-> adapter,
                  method |-> rq.method,
                  url |-> rq.url,
                  headers |-> header,
                  span |-> IF started THEN id ELSE 0,
                  ctxSpan |-> IF started THEN id ELSE 0,
                  logFields |-> IF started THEN TraceIDField(key, span) ELSE <<>>,
                  StatusCode |-> 200,
                  calls |-> 0])
    /\ UNCHANGED <<globalTracer, configCalls, queries, outbound>>

\* The headers an inbound request can carry: none, a malformed trace header,
\* or one TraceOutbound wrote.
InboundHeaders ==
    {NoHeader, MalformedHeader} \cup {o.header : o \in outbound}

Middleware(rq, header) == StartInbound("Middleware", "trace_id", rq, header)

HTTPMiddleware(rq, header) ==
    StartInbound("HTTPMiddleware", "correlation_id", rq, header)

\* The handler writes the response status: sr.StatusCode changes. The finish
\* function runs once the response has been written, so the status no longer
\* changes after its first invocation.
WriteHeader(r, code) ==
    /\ r \in 1..Len(reqs)
    /\ reqs[r].calls = 0
    /\ reqs[r].StatusCode # code
    /\ reqs' = [reqs EXCEPT ![r].StatusCode = code]
    /\ UNCHANGED <<globalTracer, configCalls, spans, queries, outbound>>

\* Variant: 4xx counted as an error of the span
IsClientOrServerError(status) == status >= 400
\* sr.StatusCode >= http.StatusInternalServerError
IsServerError(status) == status >= StatusInternalServerError

\* What one invocation of the returned finish function does to its span
FinishInbound(span, status) ==
    LET tagged == SetTag(span, "http.status_code", Itoa(status))
    IN Finish(IF IsServerError(status) THEN SetTag(tagged, "error", TRUE)
              ELSE tagged)

\* Variant: one span variable shared by all calls
LastStartedSpan(own) == Len(spans)
\* The span a returned closure works on: the one its adapter call started
\* (the closure captures the call's own span variable).
CapturedSpan(own) == own

InvokeFinish(r) ==
    /\ reqs[r].span # 0
    /\ TotalCalls < MaxCalls
    /\ LET s == CapturedSpan(reqs[r].span)
       IN spans' = [spans EXCEPT ![s] = FinishInbound(spans[s], reqs[r].StatusCode)]
    /\ reqs' = [reqs EXCEPT ![r].calls = @ + 1]
    /\ UNCHANGED <<globalTracer, configCalls, queries, outbound>>

\* The finish function returned by Middleware
MiddlewareFinish(r) ==
    /\ r \in 1..Len(reqs)
    /\ reqs[r].adapter = "Middleware"
    /\ InvokeFinish(r)

\* The finish function returned by HTTPMiddleware
HTTPMiddlewareFinish(r) ==
    /\ r \in 1..Len(reqs)
    /\ reqs[r].adapter = "HTTPMiddleware"
    /\ InvokeFinish(r)

-----------------------------------------------------------------------------
(* TraceOutbound *)

TraceOutbound(s) ==
    /\ s \in 1..Len(spans)
    /\ Cardinality(outbound) < MaxOutbound
    /\ LET res == Inject(globalTracer, spans[s].ctx)
           sent == [span |-> s, header |-> res.header, err |-> res.err]
       IN /\ sent \notin outbound
          /\ outbound' = outbound \cup {sent}
    /\ UNCHANGED <<globalTracer, configCalls, spans, reqs, queries>>

-----------------------------------------------------------------------------
(* SQLMiddleware *)

\* Variant: the suffix without the check for an empty queryName
SpanNameAlwaysSuffixed(queryName) == <<"d", "b">> \o <<"_">> \o queryName
\* spanName: "db", or fmt.Sprintf("%s_%s", spanName, queryName)
SpanName(queryName) ==
    IF queryName # <<>> THEN <<"d", "b">> \o <<"_">> \o queryName
    ELSE <<"d", "b">>

\* parentSpan: the span the context passed in carries (0: none)
SQLMiddleware(parentSpan, queryName, query) ==
    /\ Len(reqs) + Len(queries) < MaxSpans
    /\ parentSpan \in 0..Len(spans)
    /\ LET id == Len(spans) + 1
           span0 == StartSpanFromContext(globalTracer, id, parentSpan,
                                         SpanName(queryName), NoOption)
           span == SetTag(SetTag(SetTag(span0, "component", "tracing"),
                                 "db.type", "sql"),
                          "db.statement", query)
       IN /\ spans' = Append(spans, span)
          /\ queries' = Append(queries,
                 [queryName |-> queryName,
                  query |-> query,
                  span |-> id,
                  ctxSpan |-> id,
                  queryErr |-> FALSE,
                  calls |-> 0])
    /\ UNCHANGED <<globalTracer, configCalls, reqs, outbound>>

\* Variant: Finish called at once instead of deferred
EndFinishingFirst(span, queryErr) ==
    IF queryErr THEN SetTag(Finish(span), "error", TRUE) ELSE Finish(span)
\* Variant: Finish not deferred and skipped on the error path
EndWithoutFinishOnError(span, queryErr) ==
    IF queryErr THEN SetTag(span, "error", TRUE) ELSE Finish(span)
\* Variant: the error tag set whatever queryErr is
EndTaggingAlways(span, queryErr) == Finish(SetTag(span, "error", TRUE))
\* What one invocation of mwEnd does to its span: the deferred Finish runs
\* last, after the error tag.
EndSQL(span, queryErr) ==
    Finish(IF queryErr THEN SetTag(span, "error", TRUE) ELSE span)

\* mwEnd(ctx, queryName, query, queryErr, args...): its own queryName and
\* query parameters are not used.
SQLMiddlewareEnd(q, queryName, query, queryErr) ==
    /\ q \in 1..Len(queries)
    /\ TotalCalls < MaxCalls
    /\ LET s == CapturedSpan(queries[q].span)
       IN spans' = [spans EXCEPT ![s] = EndSQL(spans[s], queryErr)]
    /\ queries' = [queries EXCEPT ![q].calls = @ + 1,
                                  ![q].queryErr = queryErr]
    /\ UNCHANGED <<globalTracer, configCalls, reqs, outbound>>

-----------------------------------------------------------------------------
(* Specifications *)

\* Process start: opentracing's global tracer is its default NoopTracer
Init ==
    /\ globalTracer = "noop"
    /\ configCalls = <<>>
    /\ spans = <<>>
    /\ reqs = <<>>
    /\ queries = <<>>
    /\ outbound = {}

NextStartup == \E c \in Configs, err \in BOOLEAN : ConfigureTracer(c, err)

SpecStartup == Init /\ [][NextStartup]_vars

\* The serving process: startup is over (the tracer is installed before any
\* adapter runs) and has left either the default tracer or the one a
\* ConfigureTracer call installed.
InitServing ==
    /\ globalTracer \in {"noop", "jaeger"}
    /\ configCalls = <<>>
    /\ spans = <<>>
    /\ reqs = <<>>
    /\ queries = <<>>
    /\ outbound = {}

Next ==
    \/ \E rq \in Requests, h \in InboundHeaders : Middleware(rq, h)
    \/ \E rq \in Requests, h \in InboundHeaders : HTTPMiddleware(rq, h)
    \/ \E r \in 1..MaxSpans, code \in StatusCodes : WriteHeader(r, code)
    \/ \E r \in 1..MaxSpans : MiddlewareFinish(r)
    \/ \E r \in 1..MaxSpans : HTTPMiddlewareFinish(r)
    \/ \E s \in 1..MaxSpans : TraceOutbound(s)
    \/ \E p \in 0..MaxSpans, n \in QueryNames, t \in QueryTexts :
           SQLMiddleware(p, n, t)
    \/ \E q \in 1..MaxSpans, n \in QueryNames, t \in QueryTexts, e \in BOOLEAN :
           SQLMiddlewareEnd(q, n, t, e)

Spec == InitServing /\ [][Next]_vars

-----------------------------------------------------------------------------
(* Vocabulary of the properties *)

HasTag(span, key) == key \in DOMAIN span.tags

\* The owners of spans: the adapter calls that started one
StartedReqs == {r \in 1..Len(reqs) : reqs[r].span # 0}
Queries == 1..Len(queries)

DigitChars == {Digits[i] : i \in 1..10}
DigitValue(c) == CHOOSE d \in 0..9 : Digits[d + 1] = c

RECURSIVE DecimalValue(_)
\* The number a sequence of digit characters denotes
DecimalValue(str) ==
    IF str = <<>> THEN 0
    ELSE 10 * DecimalValue(SubSeq(str, 1, Len(str) - 1)) + DigitValue(str[Len(str)])

\* str is the decimal rendering of the natural number n
IsDecimalOf(str, n) ==
    /\ Len(str) >= 1
    /\ \A i \in 1..Len(str) : str[i] \in DigitChars
    /\ Len(str) > 1 => str[1] # "0"
    /\ DecimalValue(str) = n

-----------------------------------------------------------------------------
(* C1 *)

\* C1 as claimed (its safety half): no span is ever finished more than once,
\* whatever invocations the caller makes of the finish and end functions.
C1_FinishedAtMostOnce == \A s \in 1..Len(spans) : spans[s].finishes <= 1

\* C1, amended: every invocation of a finish function or end-function calls
\* Finish on its span exactly once, on the error path as on the success path,
\* and nothing else finishes a span: a span has been finished exactly as often
\* as the closure returned with it has been invoked.
C1_FinishedOncePerInvocation ==
    /\ \A r \in StartedReqs : spans[reqs[r].span].finishes = reqs[r].calls
    /\ \A q \in Queries : spans[queries[q].span].finishes = queries[q].calls

\* A query failed, its end-function ran once, and its span is finished once
C1_Witness ==
    \E q \in Queries :
        /\ queries[q].calls = 1
        /\ queries[q].queryErr
        /\ spans[queries[q].span].finishes = 1

-----------------------------------------------------------------------------
(* C2 *)

\* C2 as claimed: no tag is ever set on a span that has been finished, for
\* any number of invocations of the finish and end functions.
C2_NoTagAfterFinish == \A s \in 1..Len(spans) : spans[s].late = {}

\* C2, amended: the adapters and the first invocation of a finish function or
\* end-function set their tags before the span's first Finish; a tag is set
\* on a finished span only by a second or later invocation of that closure,
\* and then only http.status_code or error.
C2_TagAfterFinishOnlyOnReinvocation ==
    /\ \A r \in StartedReqs :
           /\ reqs[r].calls <= 1 => spans[reqs[r].span].late = {}
           /\ spans[reqs[r].span].late \subseteq {"http.status_code", "error"}
    /\ \A q \in Queries :
           /\ queries[q].calls <= 1 => spans[queries[q].span].late = {}
           /\ spans[queries[q].span].late \subseteq {"error"}

\* A failed query's end-function ran once: the error tag is on the span, the
\* span is finished, and no tag came after the Finish
C2_Witness ==
    \E q \in Queries :
        /\ queries[q].calls = 1
        /\ HasTag(spans[queries[q].span], "error")
        /\ spans[queries[q].span].finishes = 1
        /\ spans[queries[q].span].late = {}

-----------------------------------------------------------------------------
(* C3 *)

\* C3: once the finish function of an inbound request has run, its span
\* carries error = true if and only if the status code the observer held then
\* is >= 500; below 500 (4xx included) it carries no error tag, and neither
\* does a span whose finish function has not run.
C3_ErrorTagIffServerError ==
    \A r \in StartedReqs :
        LET span == spans[reqs[r].span]
        IN /\ reqs[r].calls = 0 => ~HasTag(span, "error")
           /\ reqs[r].calls > 0 =>
                  /\ HasTag(span, "error") <=> reqs[r].StatusCode >= 500
                  /\ HasTag(span, "error") => span.tags["error"] = TRUE

\* Two finished requests, one answered 404 without error tag, one answered
\* 500 with it
C3_Witness ==
    \E r1 \in StartedReqs, r2 \in StartedReqs :
        /\ reqs[r1].calls > 0 /\ reqs[r1].StatusCode = 404
        /\ ~HasTag(spans[reqs[r1].span], "error")
        /\ reqs[r2].calls > 0 /\ reqs[r2].StatusCode = 500
        /\ HasTag(spans[reqs[r2].span], "error")

-----------------------------------------------------------------------------
(* C4 *)

\* C4: the span of an inbound request has no http.status_code tag until its
\* finish function runs, and from then on the tag is the decimal string of
\* the status code the observer held when the finish function ran (the
\* status written after the adapter returned).
C4_StatusCodeTag ==
    \A r \in StartedReqs :
        LET span == spans[reqs[r].span]
        IN /\ reqs[r].calls = 0 => ~HasTag(span, "http.status_code")
           /\ reqs[r].calls > 0 =>
                  /\ HasTag(span, "http.status_code")
                  /\ IsDecimalOf(span.tags["http.status_code"], reqs[r].StatusCode)

\* The handler wrote 404 after the adapter returned, and the finish function
\* tagged "404"
C4_Witness ==
    \E r \in StartedReqs :
        /\ reqs[r].calls = 1
        /\ reqs[r].StatusCode = 404
        /\ HasTag(spans[reqs[r].span], "http.status_code")
        /\ spans[reqs[r].span].tags["http.status_code"] = <<"4", "0", "4">>

-----------------------------------------------------------------------------
(* C5 *)

\* What C5 says of one step: an invocation of a query's end-function leaves
\* the error tag on the span exactly if the tag was there or the invocation
\* was given a query error.
C5_EndStep ==
    \A q \in Queries :
        queries'[q].calls = queries[q].calls + 1 =>
            (HasTag(spans'[queries[q].span], "error")
                <=> (HasTag(spans[queries[q].span], "error") \/ queries'[q].queryErr))

\* What C5 says of a state: no error tag before the end-function runs; after
\* its call, error = true exactly if the call was given a query error.
C5_EndState ==
    \A q \in Queries :
        LET span == spans[queries[q].span]
        IN /\ queries[q].calls = 0 => ~HasTag(span, "error")
           /\ queries[q].calls = 1 => (HasTag(span, "error") <=> queries[q].queryErr)
           /\ HasTag(span, "error") => span.tags["error"] = TRUE

\* C5: SQLMiddleware sets no error tag; after the end-function has been
\* called the span carries error = true if it was called with a query error
\* and no error tag if it was called with none (an invocation never removes
\* a tag, and sets error only when given a query error).
C5_ErrorTagIffQueryError == []C5_EndState /\ [][C5_EndStep]_vars

\* One query ended with an error and tagged, one ended without and untagged
C5_Witness ==
    \E q1 \in Queries, q2 \in Queries :
        /\ queries[q1].calls = 1 /\ queries[q1].queryErr
        /\ HasTag(spans[queries[q1].span], "error")
        /\ queries[q2].calls = 1 /\ ~queries[q2].queryErr
        /\ ~HasTag(spans[queries[q2].span], "error")

-----------------------------------------------------------------------------
(* C6, under SpecStartup *)

\* C6 as claimed: every ConfigureTracer call sets the process-wide tracer
\* exactly once, the call whose tracer construction fails included.
C6_EveryCallSetsTracerOnce ==
    \A i \in 1..Len(configCalls) : configCalls[i].sets = 1

\* The calls that installed a tracer
Installing == {i \in 1..Len(configCalls) : ~configCalls[i].err}

\* C6, amended: a ConfigureTracer call sets the process-wide tracer exactly
\* once when tracer construction succeeds (Enabled = false included, which
\* installs the no-op tracer) and returns a release handle; when construction
\* fails it returns a nil handle and does not set the tracer at all, which
\* stays the one installed before the call.
C6_SetsTracerOnceUnlessConstructionFails ==
    /\ \A i \in 1..Len(configCalls) :
           /\ configCalls[i].err => configCalls[i].sets = 0 /\ configCalls[i].closer = "nil"
           /\ ~configCalls[i].err => configCalls[i].sets = 1 /\ configCalls[i].closer # "nil"
    /\ Installing = {} => globalTracer = "noop"
    /\ Installing # {} =>
           LET last == CHOOSE i \in Installing : \A j \in Installing : j <= i
           IN globalTracer = IF configCalls[last].Enabled THEN "jaeger" ELSE "noop"

\* An enabled configuration installed Jaeger, then a call whose construction
\* failed left it in place
C6_Witness ==
    /\ Len(configCalls) = 2
    /\ configCalls[1].Enabled /\ ~configCalls[1].err
    /\ configCalls[2].err
    /\ globalTracer = "jaeger"

-----------------------------------------------------------------------------
(* C7 *)

-----------------------------------------------------------------------------
(* C8 *)

\* C8: when TraceOutbound has injected span S's context into an outbound
\* request's headers and an inbound request carries exactly those headers,
\* the span the adapter starts for it has S's context as its parent and S's
\* trace identifier.
C8_InjectExtractRoundTrip ==
    \A o \in outbound :
        \A r \in 1..Len(reqs) :
            (~o.err /\ o.header # NoHeader /\ reqs[r].headers = o.header) =>
                /\ reqs[r].span \in 1..Len(spans)
                /\ spans[reqs[r].span].parent = spans[o.span].ctx
                /\ spans[reqs[r].span].ctx.traceID = spans[o.span].ctx.traceID
                /\ spans[reqs[r].span].ctx.parentID = spans[o.span].ctx.spanID

\* A query span's context was injected and an inbound request carried it
C8_Witness ==
    \E o \in outbound :
        \E r \in StartedReqs, q \in Queries :
            /\ o.span = queries[q].span
            /\ o.header # NoHeader
            /\ reqs[r].headers = o.header
            /\ spans[reqs[r].span].ctx.traceID = spans[o.span].ctx.traceID

-----------------------------------------------------------------------------
(* C9 *)

\* The owner records of span s
OwnersOf(s) ==
    {<<"req", r>> : r \in {x \in StartedReqs : reqs[x].span = s}}
        \cup {<<"query", q>> : q \in {x \in Queries : queries[x].span = s}}

\* Every adapter call has a span of its own
C9_OwnSpans ==
    /\ \A s \in 1..Len(spans) : Cardinality(OwnersOf(s)) = 1
    /\ \A r \in StartedReqs : reqs[r].span \in 1..Len(spans)
    /\ \A q \in Queries : queries[q].span \in 1..Len(spans)

\* A step changes an existing span only by an invocation of the closure that
\* was returned with that span, and never changes the process-wide tracer
C9_Step ==
    /\ globalTracer' = globalTracer
    /\ \A s \in 1..Len(spans) :
           spans'[s] # spans[s] =>
               \/ \E r \in StartedReqs :
                      reqs[r].span = s /\ reqs'[r].calls = reqs[r].calls + 1
               \/ \E q \in Queries :
                      queries[q].span = s /\ queries'[q].calls = queries[q].calls + 1

\* C9: in every interleaving of the adapters' start hooks and finish/end
\* functions, each adapter call obtains a span of its own, a finish function
\* or end-function tags and finishes only the span it was returned with, and
\* the adapters never modify the process-wide tracer.
C9_IndependentSpans == []C9_OwnSpans /\ [][C9_Step]_vars

\* A request and a query are in flight together; the request, started first,
\* is finished while the query, started under it, is still open
C9_Witness ==
    \E r \in StartedReqs, q \in Queries :
        /\ reqs[r].span < queries[q].span
        /\ reqs[r].calls = 1 /\ spans[reqs[r].span].finishes = 1
        /\ queries[q].calls = 0 /\ spans[queries[q].span].finishes = 0

-----------------------------------------------------------------------------
(* C10 *)

\* C10: the span SQLMiddleware starts is named "db" when queryName is empty
\* and "db_" followed by queryName otherwise, whatever the query text and
\* whatever is later passed to the end-function.
C10_SpanName ==
    \A q \in Queries :
        LET name == spans[queries[q].span].name
            queryName == queries[q].queryName
        IN /\ Len(queryName) = 0 => name = <<"d", "b">>
           /\ Len(queryName) > 0 =>
                  /\ Len(name) = 3 + Len(queryName)
                  /\ SubSeq(name, 1, 3) = <<"d", "b", "_">>
                  /\ SubSeq(name, 4, Len(name)) = queryName

\* A query named fetch_user and one without a name, both ended
C10_Witness ==
    \E q1 \in Queries, q2 \in Queries :
        /\ queries[q1].queryName = <<"f","e","t","c","h","_","u","s","e","r">>
        /\ spans[queries[q1].span].name =
               <<"d","b","_","f","e","t","c","h","_","u","s","e","r">>
        /\ queries[q1].calls = 1
        /\ queries[q2].queryName = <<>>
        /\ queries[q2].calls = 1

=============================================================================
